---- MODULE Spec2Model ----
(***************************************************************************)
(* Intercom close-event ingestion and review-invitation dispatch.          *)
(*                                                                         *)
(* The model follows the POST /api/notifications/intercom handler and      *)
(* processInvitationWithRetry.  Every `await` of the source is one step:   *)
(* the awaited collaborator call takes effect (or throws) and the code     *)
(* runs on to its next await.  Each request owns at most one dispatch      *)
(* chain, so a request and its chain share one process record.             *)
(***************************************************************************)
EXTENDS Integers, Sequences, FiniteSets, TLC

VARIABLES
    store,    \* LogStore: conversationId -> the records created for it, oldest first
    stats,    \* LogStore counters written by incrementInviteCount
    audit,    \* records handed to logger.logInvitation
    proc,     \* request id -> handler / dispatch-chain state
    faults    \* collaborator exceptions raised so far

vars == <<store, stats, audit, proc, faults>>

\* ------------------------------------------------------------------ bounds
MaxReqs == 2
MaxFaults == 1
NumConvs == 3

ReqIds == 1..MaxReqs
Conv == 1..NumConvs

\* ------------------------------------------------------- program constants
MAX_RETRIES == 3
RETRY_DELAYS == <<5000, 10000, 20000>>

DefaultName == "Valued Customer"
DefaultAgent == "Our Support Team"
DefaultSendError == "Failed to send invitation"

\* JS truthiness of an optional string: undefined and "" are falsy.
Truthy(s) == s # ""

\* a || b on strings
OrElse(a, b) == IF Truthy(a) THEN a ELSE b

\* ------------------------------------------------------------------ inputs
\* req.body as the handler sees it.  form "raw": the Buffer bodyParser.raw
\* produces (no .type property); form "object": an already parsed object.
\* valid: whether intercomWebhookSchema.parse accepts it.
ClosedTypes == {"conversation.admin.closed", "conversation.closed"}

RawBody == [form |-> "raw", type |-> "", valid |-> FALSE, conv |-> 1]

Bodies ==
    {RawBody,
     [form |-> "object", type |-> "", valid |-> FALSE, conv |-> 1],
     [form |-> "object", type |-> "conversation.closed", valid |-> FALSE, conv |-> 1],
     [form |-> "object", type |-> "conversation.user.replied", valid |-> TRUE, conv |-> 1]}
    \cup
    [form : {"raw", "object"}, type : ClosedTypes, valid : {TRUE}, conv : Conv]

\* What the request carried, whatever the handler made of it: "close" for a
\* well-formed event of a recognized conversation-closed type, "other" for a
\* well-formed event of another type, "invalid" for a body the schema
\* rejects, "empty" for a body with no type.
EventClass(body) ==
    IF ~Truthy(body.type) THEN "empty"
    ELSE IF ~body.valid THEN "invalid"
    ELSE IF body.type \in ClosedTypes THEN "close"
    ELSE "other"

\* The payload of a conversation's close event is the conversation's own data,
\* the same on every delivery: every third conversation has no contacts, every
\* second one has no author name on its last part and no contact name.
\* conversation.contacts?.contacts || []
ConvContacts(c) == IF c % 3 = 0 THEN <<>> ELSE <<c>>

\* lastPart?.author?.name
ConvAuthor(c) == IF c % 2 = 1 THEN "Alice" ELSE ""

\* What fetchContactDetails can return for a contact id: null (the request
\* failed), or the contact object, with or without an email.
NullContact == [isnull |-> TRUE, email |-> "", name |-> ""]
Contacts(contactId) ==
    {NullContact,
     [isnull |-> FALSE, email |-> "", name |-> "Bob"],
     [isnull |-> FALSE, email |-> "bob@example.com",
      name |-> IF contactId % 2 = 1 THEN "Bob" ELSE ""]}

\* What emailService.sendReviewInvitation can do: return a result or raise.
SendResults ==
    {[raised |-> FALSE, success |-> TRUE, error |-> ""],
     [raised |-> FALSE, success |-> FALSE, error |-> "smtp rejected"],
     [raised |-> TRUE, success |-> FALSE, error |-> "socket hang up"]}

SchemaError == "schema error"
StoreError == "store error"
AuditError == "audit error"

\* JSON.stringify(result)
JSONstringify(result) == <<"success", result.success, "error", result.error>>

\* ------------------------------------------------------------- LogStore
\* storage.getInvitationLog(conversationId): the record, or nothing.
getInvitationLog(st, c) == IF st[c] = <<>> THEN <<>> ELSE <<Head(st[c])>>

\* storage.createInvitationLog(partial): a new record with the defaults.
createInvitationLog(st, c, partial) ==
    [st EXCEPT ![c] = Append(@,
        [conversationId |-> c,
         customerEmail |-> partial.customerEmail,
         customerName |-> partial.customerName,
         agentName |-> partial.agentName,
         status |-> partial.status,
         retryCount |-> 0,
         errorMessage |-> "",
         responseLog |-> <<>>])]

\* Merge a patch into a record: the patch's fields replace the record's.
Merge(rec, patch) ==
    [f \in DOMAIN rec |-> IF f \in DOMAIN patch THEN patch[f] ELSE rec[f]]

\* storage.updateInvitationLog(conversationId, patch)
updateInvitationLog(st, c, patch) ==
    IF st[c] = <<>> THEN st
    ELSE [st EXCEPT ![c] = <<Merge(Head(@), patch)>> \o Tail(@)]

\* storage.incrementInviteCount(kind)
incrementInviteCount(s, kind) == [s EXCEPT ![kind] = @ + 1]

\* ------------------------------------------------------------- handler
IdleProc ==
    [pc |-> "idle", body |-> RawBody,
     event |-> "", evconv |-> 0, looked |-> "", atRestart |-> "",
     conv |-> 0, replay |-> FALSE, created |-> FALSE, resp |-> "", code |-> 0,
     email |-> "", name |-> "", agentName |-> "",
     retryCount |-> 0, err |-> "", result |-> <<>>, got |-> <<>>,
     outcomes |-> <<>>, delays |-> <<>>, cfault |-> FALSE,
     incS |-> 0, incF |-> 0]

\* The handler returns: its locals are gone, the response stays.
\* A handler whose catch block answers with a server error.
Respond_serverError(p, msg) ==
    [p EXCEPT !.pc = "responded", !.resp = msg,
              !.code = IF msg = "failed" THEN 500 ELSE 200, !.body = RawBody]

\* Every return of the handler is res.status(200).json(...).
Respond(p, msg) ==
    [p EXCEPT !.pc = "responded", !.resp = msg, !.code = 200, !.body = RawBody]

\* if (!webhookData || !webhookData.type)
IsVerification(body) == body.form = "raw" \/ ~Truthy(body.type)

\* validatedData.type === 'conversation.admin.closed' || ... === 'conversation.closed'
IsCloseEvent(type) == type \in ClosedTypes

\* A duplicate check that never finds the record.
IsDuplicate_never(existingLog) == FALSE

\* if (existingLog)
IsDuplicate(existingLog) == existingLog # <<>>

\* The handler from its entry to its first await.
Arrive(r) ==
    /\ proc[r].pc = "idle"
    /\ \E body \in Bodies :
         LET p == [proc[r] EXCEPT !.body = body, !.event = EventClass(body),
                       !.evconv = IF EventClass(body) = "close" THEN body.conv ELSE 0]
         IN
         proc' = [proc EXCEPT ![r] =
            IF IsVerification(body) THEN Respond(p, "ready")
            ELSE IF ~body.valid THEN Respond([p EXCEPT !.err = SchemaError], "failed")
            ELSE IF ~IsCloseEvent(body.type) THEN Respond(p, "ignored")
            ELSE [p EXCEPT !.pc = "check", !.conv = body.conv,
                           !.replay = (store[body.conv] # <<>>)]]
    /\ UNCHANGED <<store, stats, audit, faults>>

\* await storage.getInvitationLog(conversationId), then on to the next await.
Check(r) ==
    /\ proc[r].pc = "check"
    /\ LET p == proc[r]
           existingLog == getInvitationLog(store, p.conv)
       IN  proc' = [proc EXCEPT ![r] =
              IF IsDuplicate(existingLog) THEN Respond(p, "duplicate")
              ELSE IF Len(ConvContacts(p.conv)) = 0 THEN Respond(p, "no_contacts")
              ELSE [p EXCEPT !.pc = "lookup"]]
    /\ UNCHANGED <<store, stats, audit, faults>>

\* A collaborator call of the handler throws: the handler's catch answers 200.
HandlerFault(r) ==
    /\ proc[r].pc \in {"check", "create"}
    /\ faults < MaxFaults
    /\ faults' = faults + 1
    /\ proc' = [proc EXCEPT ![r] = Respond([@ EXCEPT !.err = StoreError], "failed")]
    /\ UNCHANGED <<store, stats, audit>>

\* A recipient check that only tests for null.
HasEmail_notNull(contactDetails) == ~contactDetails.isnull

\* if (!contactDetails || !contactDetails.email): the negation
HasEmail(contactDetails) == ~contactDetails.isnull /\ Truthy(contactDetails.email)

\* How the lookup came out.
LookupClass(contactDetails) ==
    IF contactDetails.isnull THEN "null"
    ELSE IF ~Truthy(contactDetails.email) THEN "noemail"
    ELSE "ok"

\* await fetchContactDetails(contactId), then on to the next await.
Lookup(r) ==
    /\ proc[r].pc = "lookup"
    /\ \E contactDetails \in Contacts(ConvContacts(proc[r].conv)[1]) :
         LET p == [proc[r] EXCEPT !.looked = LookupClass(contactDetails)] IN
         proc' = [proc EXCEPT ![r] =
            IF ~HasEmail(contactDetails)
            THEN Respond(p, "no_email")
            ELSE [p EXCEPT !.pc = "create",
                           !.email = contactDetails.email,
                           !.name = OrElse(contactDetails.name, DefaultName),
                           !.agentName = OrElse(ConvAuthor(p.conv), DefaultAgent),
                           !.body = RawBody]]
    /\ UNCHANGED <<store, stats, audit, faults>>

\* await storage.createInvitationLog(...), then processInvitationWithRetry is
\* called (it runs to its await of the sender) and the response is sent.
Create(r) ==
    /\ proc[r].pc = "create"
    /\ LET p == proc[r] IN
       /\ store' = createInvitationLog(store, p.conv,
                      [customerEmail |-> p.email, customerName |-> p.name,
                       agentName |-> p.agentName, status |-> "processing"])
       /\ proc' = [proc EXCEPT ![r] =
             [p EXCEPT !.pc = "send", !.created = TRUE, !.retryCount = 0,
                       !.resp = "processed", !.code = 200]]
    /\ UNCHANGED <<stats, audit, faults>>

\* ------------------------------------------- processInvitationWithRetry
\* A retry test that is off by one.
ShouldRetry_inclusive(retryCount) == retryCount <= MAX_RETRIES

\* if (retryCount < MAX_RETRIES)
ShouldRetry(retryCount) == retryCount < MAX_RETRIES

\* A delay read one entry too far: RETRY_DELAYS[retryCount + 1] in the source.
RetryDelay_oneTooFar(retryCount) ==
    IF retryCount + 2 \in DOMAIN RETRY_DELAYS THEN RETRY_DELAYS[retryCount + 2] ELSE -1

\* RETRY_DELAYS[retryCount] (the source indexes from 0)
RetryDelay(retryCount) ==
    IF retryCount + 1 \in DOMAIN RETRY_DELAYS THEN RETRY_DELAYS[retryCount + 1] ELSE -1

SuccessPatch(result) == [status |-> "success", responseLog |-> JSONstringify(result)]

\* A retry patch that also blanks the customer's name.
RetryPatch_blanksName(retryCount, message) ==
    [status |-> "retrying", retryCount |-> retryCount + 1, errorMessage |-> message,
     customerName |-> ""]

\* {status: 'retrying', retryCount: retryCount + 1, errorMessage: error.message}
RetryPatch(retryCount, message) ==
    [status |-> "retrying", retryCount |-> retryCount + 1, errorMessage |-> message]

FailedPatch(message) == [status |-> "failed", errorMessage |-> message]

\* Entering the catch block with error.message = message, up to its first await.
Catch(p, message) ==
    [p EXCEPT !.err = message, !.result = <<>>, !.got = <<>>,
              !.pc = IF ShouldRetry(p.retryCount) THEN "updR" ELSE "updF"]

\* A pipeline that gives up at once when the sender raises.
AfterSend_raiseIsFatal(p, res) ==
    IF res.raised THEN [Catch(p, res.error) EXCEPT !.pc = "updF"]
    ELSE IF res.success THEN [p EXCEPT !.pc = "updS", !.result = <<res>>]
    ELSE Catch(p, OrElse(res.error, DefaultSendError))

\* The sender raised: the catch block has the exception. It returned: if
\* (result.success) goes on in the try block, else throw new
\* Error(result.error || 'Failed to send invitation') into the same catch.
AfterSend(p, res) ==
    IF res.raised THEN Catch(p, res.error)
    ELSE IF res.success THEN [p EXCEPT !.pc = "updS", !.result = <<res>>]
    ELSE Catch(p, OrElse(res.error, DefaultSendError))

\* await emailService.sendReviewInvitation(reviewData) settles.
SendReturn(r) ==
    /\ proc[r].pc = "send"
    /\ \E res \in SendResults :
         LET p == [proc[r] EXCEPT !.outcomes = Append(@, res.success)] IN
         proc' = [proc EXCEPT ![r] = AfterSend(p, res)]
    /\ UNCHANGED <<store, stats, audit, faults>>

\* try: await storage.updateInvitationLog(conversationId, {status: 'success', ...})
UpdateSuccess(r) ==
    /\ proc[r].pc = "updS"
    /\ store' = updateInvitationLog(store, proc[r].conv, SuccessPatch(Head(proc[r].result)))
    /\ proc' = [proc EXCEPT ![r].pc = "incS", ![r].result = <<>>]
    /\ UNCHANGED <<stats, audit, faults>>

\* try: await storage.incrementInviteCount('success')
IncSuccess(r) ==
    /\ proc[r].pc = "incS"
    /\ stats' = incrementInviteCount(stats, "success")
    /\ proc' = [proc EXCEPT ![r].pc = "getS", ![r].incS = @ + 1]
    /\ UNCHANGED <<store, audit, faults>>

\* try: const updatedLog = await storage.getInvitationLog(conversationId)
GetSuccess(r) ==
    /\ proc[r].pc = "getS"
    /\ LET updatedLog == getInvitationLog(store, proc[r].conv) IN
       proc' = [proc EXCEPT ![r].got = updatedLog,
                            ![r].pc = IF updatedLog # <<>> THEN "audS" ELSE "done"]
    /\ UNCHANGED <<store, stats, audit, faults>>

\* try: await logger.logInvitation(updatedLog)
AuditSuccess(r) ==
    /\ proc[r].pc = "audS"
    /\ audit' = audit \cup {Head(proc[r].got)}
    /\ proc' = [proc EXCEPT ![r].pc = "done", ![r].got = <<>>]
    /\ UNCHANGED <<store, stats, faults>>

\* A collaborator call inside the try block throws: the catch block takes it
\* like a failed send.
TryFault(r) ==
    /\ proc[r].pc \in {"updS", "incS", "getS", "audS"}
    /\ faults < MaxFaults
    /\ faults' = faults + 1
    /\ proc' = [proc EXCEPT ![r] =
          Catch([@ EXCEPT !.cfault = TRUE],
                IF @.pc = "audS" THEN AuditError ELSE StoreError)]
    /\ UNCHANGED <<store, stats, audit>>

\* catch, retry branch: await storage.updateInvitationLog(..'retrying'..), then
\* setTimeout(..., RETRY_DELAYS[retryCount]) and the call returns.
UpdateRetry(r) ==
    /\ proc[r].pc = "updR"
    /\ LET p == proc[r] IN
       /\ store' = updateInvitationLog(store, p.conv, RetryPatch(p.retryCount, p.err))
       /\ proc' = [proc EXCEPT ![r] =
             [p EXCEPT !.pc = "timer", !.err = "",
                       !.delays = Append(@, RetryDelay(p.retryCount))]]
    /\ UNCHANGED <<stats, audit, faults>>

\* A retry that waits until no other chain has a send in flight.
TimerFire_oneAtATime(r) ==
    /\ proc[r].pc = "timer"
    /\ \A q \in ReqIds \ {r} : proc[q].pc # "send"
    /\ proc' = [proc EXCEPT ![r].pc = "send", ![r].retryCount = @ + 1]
    /\ UNCHANGED <<store, stats, audit, faults>>

\* The timer fires: processInvitationWithRetry(..., retryCount + 1) runs to its
\* await of the sender.
TimerFire(r) ==
    /\ proc[r].pc = "timer"
    /\ proc' = [proc EXCEPT ![r].pc = "send", ![r].retryCount = @ + 1]
    /\ UNCHANGED <<store, stats, audit, faults>>

\* catch, exhausted branch: await storage.updateInvitationLog(..'failed'..)
UpdateFailed(r) ==
    /\ proc[r].pc = "updF"
    /\ store' = updateInvitationLog(store, proc[r].conv, FailedPatch(proc[r].err))
    /\ proc' = [proc EXCEPT ![r].pc = "incF", ![r].err = ""]
    /\ UNCHANGED <<stats, audit, faults>>

\* catch: await storage.incrementInviteCount('failed')
IncFailed(r) ==
    /\ proc[r].pc = "incF"
    /\ stats' = incrementInviteCount(stats, "failed")
    /\ proc' = [proc EXCEPT ![r].pc = "getF", ![r].incF = @ + 1]
    /\ UNCHANGED <<store, audit, faults>>

\* catch: const log = await storage.getInvitationLog(conversationId)
GetFailed(r) ==
    /\ proc[r].pc = "getF"
    /\ LET log == getInvitationLog(store, proc[r].conv) IN
       proc' = [proc EXCEPT ![r].got = log,
                            ![r].pc = IF log # <<>> THEN "audF" ELSE "done"]
    /\ UNCHANGED <<store, stats, audit, faults>>

\* catch: await logger.logInvitation(log)
AuditFailed(r) ==
    /\ proc[r].pc = "audF"
    /\ audit' = audit \cup {Head(proc[r].got)}
    /\ proc' = [proc EXCEPT ![r].pc = "done", ![r].got = <<>>]
    /\ UNCHANGED <<store, stats, faults>>

\* A collaborator call inside the catch block throws: nothing catches it inside
\* processInvitationWithRetry, whose promise rejects.
CatchFault(r) ==
    /\ proc[r].pc \in {"updR", "updF", "incF", "getF", "audF"}
    /\ faults < MaxFaults
    /\ faults' = faults + 1
    /\ proc' = [proc EXCEPT ![r].pc = "rejected", ![r].cfault = TRUE,
                            ![r].got = <<>>,
                            ![r].err = IF proc[r].pc = "audF" THEN AuditError ELSE StoreError]
    /\ UNCHANGED <<store, stats, audit>>

Init ==
    /\ store = [c \in Conv |-> <<>>]
    /\ stats = [success |-> 0, failed |-> 0]
    /\ audit = {}
    /\ proc = [r \in ReqIds |-> IdleProc]
    /\ faults = 0

Next ==
    \E r \in ReqIds :
        \/ Arrive(r)
        \/ Check(r)
        \/ HandlerFault(r)
        \/ Lookup(r)
        \/ Create(r)
        \/ SendReturn(r)
        \/ UpdateSuccess(r)
        \/ IncSuccess(r)
        \/ GetSuccess(r)
        \/ AuditSuccess(r)
        \/ TryFault(r)
        \/ UpdateRetry(r)
        \/ TimerFire(r)
        \/ UpdateFailed(r)
        \/ IncFailed(r)
        \/ GetFailed(r)
        \/ AuditFailed(r)
        \/ CatchFault(r)

Spec == Init /\ [][Next]_vars

\* ------------------------------------------------------ process restart
\* A request is in the process's memory: its handler is between two awaits,
\* or its chain is at an await or waiting on its timer.
InMemory(p) == p.pc \notin {"idle", "responded", "done", "rejected", "lost"}

\* A restart that keeps the scheduled retries, as a durable queue would.
Restart_keepsTimers ==
    /\ \E r \in ReqIds : InMemory(proc[r])
    /\ proc' = [r \in ReqIds |->
          IF proc[r].pc = "idle" \/ proc[r].atRestart # "" THEN proc[r]
          ELSE [proc[r] EXCEPT !.atRestart = proc[r].pc,
                   !.pc = IF InMemory(proc[r]) /\ proc[r].pc # "timer"
                          THEN "lost" ELSE @,
                   !.body = RawBody, !.result = <<>>, !.got = <<>>]]
    /\ UNCHANGED <<store, stats, audit, faults>>

\* The process exits and starts again. The handlers in progress, the pending
\* promises and the setTimeout timers are in its memory and are gone; the
\* LogStore, the counters and the audit log are outside it and stay. Every
\* request of the old process notes where the restart found it.
Restart ==
    /\ \E r \in ReqIds : InMemory(proc[r])
    /\ proc' = [r \in ReqIds |->
          IF proc[r].pc = "idle" \/ proc[r].atRestart # "" THEN proc[r]
          ELSE [proc[r] EXCEPT !.atRestart = proc[r].pc,
                   !.pc = IF InMemory(proc[r]) THEN "lost" ELSE @,
                   !.body = RawBody, !.result = <<>>, !.got = <<>>]]
    /\ UNCHANGED <<store, stats, audit, faults>>

NextRestart == Next \/ Restart

SpecRestart == Init /\ [][NextRestart]_vars

\* --------------------------------------------- POST /api/test/intercom
\* The endpoint of server/routes.ts that dispatches: its path is not exempt
\* from express.json, so the body arrives parsed, and it is read without the
\* schema.
TestBodies == {b \in Bodies : b.form = "object"}

\* webhookData.data?.item?.contacts?.contacts || []
TestContacts(body) == IF body.valid THEN ConvContacts(body.conv) ELSE <<>>

\* adminPart?.author?.name || 'Support Agent'
TestDefaultAgent == "Support Agent"

\* A contact as the event carries it.
PayloadContacts(contactId) == {x \in Contacts(contactId) : ~x.isnull}

\* if (contact.email && contact.name)
Dispatchable(contact) == Truthy(contact.email) /\ Truthy(contact.name)

\* The handler up to its first await: the verification return, the
\* acknowledgement of another type, or the contact loop, which awaits
\* processInvitationWithRetry for a contact with email and name (the call runs
\* to its await of the sender) and otherwise falls through to the response.
TestArrive(r) ==
    /\ proc[r].pc = "idle"
    /\ \E body \in TestBodies :
         \E contact \in IF TestContacts(body) = <<>> THEN {NullContact}
                         ELSE PayloadContacts(TestContacts(body)[1]) :
            LET p == [proc[r] EXCEPT !.event = EventClass(body),
                          !.evconv = IF EventClass(body) = "close" THEN body.conv ELSE 0]
            IN
            proc' = [proc EXCEPT ![r] =
               IF ~Truthy(body.type) THEN Respond(p, "ready")
               ELSE IF ~IsCloseEvent(body.type) THEN Respond(p, "acknowledged")
               ELSE IF TestContacts(body) = <<>> \/ ~Dispatchable(contact)
                    THEN Respond(p, "processed")
               ELSE [p EXCEPT !.pc = "send", !.conv = body.conv,
                              !.email = contact.email, !.name = contact.name,
                              !.agentName = OrElse(ConvAuthor(body.conv), TestDefaultAgent),
                              !.retryCount = 0]]
    /\ UNCHANGED <<store, stats, audit, faults>>

\* The awaited call has returned (a retry is scheduled, or the chain is over)
\* or has rejected into the loop's catch: the response is sent.
TestRespond(r) ==
    /\ proc[r].pc \in {"timer", "done", "rejected"}
    /\ proc[r].resp = ""
    /\ proc' = [proc EXCEPT ![r].resp = "processed", ![r].code = 200]
    /\ UNCHANGED <<store, stats, audit, faults>>

\* The continuation of the awaiting handler runs before any timer callback.
TestTimerFire(r) ==
    /\ proc[r].resp # ""
    /\ TimerFire(r)

\* No record is ever created here, so getInvitationLog finds nothing and
\* logInvitation is never called.
NextTest ==
    \E r \in ReqIds :
        \/ TestArrive(r)
        \/ TestRespond(r)
        \/ SendReturn(r)
        \/ UpdateSuccess(r)
        \/ IncSuccess(r)
        \/ GetSuccess(r)
        \/ TryFault(r)
        \/ UpdateRetry(r)
        \/ TestTimerFire(r)
        \/ UpdateFailed(r)
        \/ IncFailed(r)
        \/ GetFailed(r)
        \/ CatchFault(r)

SpecTest == Init /\ [][NextTest]_vars

\* ------------------------------------------------------------ properties
\* The record the LogStore returns for a conversation.
Rec(c) == Head(store[c])

\* The dispatch chains started for conversation c.
ChainsOf(c) == {r \in ReqIds : proc[r].created /\ proc[r].conv = c}

\* Sender invocations of chain r: those that settled and the one in flight.
Sends(r) == Len(proc[r].outcomes) + (IF proc[r].pc = "send" THEN 1 ELSE 0)

\* Successful sender returns for conversation c.
Delivered(c) ==
    Cardinality({x \in ReqIds \X (1..(MAX_RETRIES + 2)) :
        /\ x[1] \in ChainsOf(c)
        /\ x[2] \in DOMAIN proc[x[1]].outcomes
        /\ proc[x[1]].outcomes[x[2]]})

\* Chain r has returned or rejected, with no timer pending.
Ended(r) == proc[r].pc \in {"done", "rejected"}

\* C1: a close event that arrives when its conversationId already has a
\* record is a no-op: no step of its handler changes the LogStore, the
\* counters, the audit log or any other request's chain, it creates no record
\* and it never starts a send attempt.
C1_ReplayIsNoOp ==
    [][\A r \in ReqIds :
         (proc'[r].replay /\ proc'[r] # proc[r]) =>
            /\ store' = store
            /\ stats' = stats
            /\ audit' = audit
            /\ \A q \in ReqIds \ {r} : proc'[q] = proc[q]
            /\ proc'[r].pc \in {"check", "responded"}
            /\ ~proc'[r].created]_vars

\* C1 witness: a replay has been answered as a duplicate while the record of
\* the first delivery is there, already moved on by its dispatch chain.
C1_Witness ==
    \E r \in ReqIds :
        /\ proc[r].replay
        /\ proc[r].resp = "duplicate"
        /\ Len(store[proc[r].conv]) = 1
        /\ Rec(proc[r].conv).status # "processing"

\* C2: for every conversationId at most one record is created and at most one
\* dispatch chain is started, whatever the interleaving of the handlers.
C2_SingleAdmission ==
    \A c \in Conv : Len(store[c]) <= 1 /\ Cardinality(ChainsOf(c)) <= 1

\* C3: the sender returns success at most once per conversationId, and no
\* send attempt for a conversation is in flight after one has succeeded.
C3_AtMostOneDelivery ==
    \A c \in Conv :
        /\ Delivered(c) <= 1
        /\ \A r \in ChainsOf(c) : proc[r].pc = "send" => Delivered(c) = 0

\* C4: a record never returns to PROCESSING, and once it is SUCCESS or FAILED
\* no step changes it.
C4_StatusMonotone ==
    [][\A c \in Conv :
         store[c] # <<>> =>
            /\ Rec(c).status # "processing" =>
                  Head(store'[c]).status # "processing"
            /\ Rec(c).status \in {"success", "failed"} =>
                  Head(store'[c]) = Rec(c)]_vars

\* C5: every record has retryCount <= MAX_RETRIES, and a chain that has just
\* marked its record FAILED did so with the stored retryCount at MAX_RETRIES
\* and after its most recent send attempt failed.
C5_FailedOnlyAfterFailedSend ==
    /\ \A c \in Conv : \A i \in DOMAIN store[c] :
          store[c][i].retryCount <= MAX_RETRIES
    /\ \A r \in ReqIds :
          proc[r].pc \in {"incF", "getF", "audF"} =>
             /\ proc[r].outcomes # <<>>
             /\ ~proc[r].outcomes[Len(proc[r].outcomes)]
             /\ Rec(proc[r].conv).status = "failed" =>
                   Rec(proc[r].conv).retryCount = MAX_RETRIES

\* C6: the counters are incremented at most once for a conversation's
\* dispatch: no chain increments them twice.
C6_CountedOnce ==
    \A r \in ReqIds : proc[r].incS + proc[r].incF <= 1

\* C7: a chain whose every send attempt failed ends with its record FAILED,
\* retryCount 3, one failure-counter increment, no success-counter increment
\* and the retry delays 5000, 10000, 20000 in that order.
C7_AllAttemptsFail ==
    \A r \in ReqIds :
        (/\ Ended(r)
         /\ Cardinality(ChainsOf(proc[r].conv)) = 1
         /\ \A i \in DOMAIN proc[r].outcomes : ~proc[r].outcomes[i]) =>
            /\ Rec(proc[r].conv).status = "failed"
            /\ Rec(proc[r].conv).retryCount = 3
            /\ proc[r].incF = 1
            /\ proc[r].incS = 0
            /\ proc[r].delays = <<5000, 10000, 20000>>

C9_FailThenSucceed ==
    \A r \in ReqIds :
        (/\ Len(proc[r].outcomes) >= 2
         /\ ~proc[r].outcomes[1]
         /\ proc[r].outcomes[2]
         /\ Cardinality(ChainsOf(proc[r].conv)) = 1) =>
            /\ proc[r].delays = <<5000>>
            /\ proc[r].incF = 0
            /\ Ended(r) =>
                  /\ Rec(proc[r].conv).status = "success"
                  /\ Rec(proc[r].conv).retryCount = 1
                  /\ proc[r].incS = 1

\* C10: a chain whose first send attempt succeeded never schedules a retry
\* and ends with its record SUCCESS, retryCount 0, responseLog the serialized
\* send result, one success-counter increment and no failure-counter
\* increment.
C10_FirstAttemptSucceeds ==
    \A r \in ReqIds :
        (/\ proc[r].outcomes # <<>>
         /\ proc[r].outcomes[1]
         /\ Cardinality(ChainsOf(proc[r].conv)) = 1) =>
            /\ proc[r].delays = <<>>
            /\ proc[r].incF = 0
            /\ Ended(r) =>
                  /\ Rec(proc[r].conv).status = "success"
                  /\ Rec(proc[r].conv).retryCount = 0
                  /\ Rec(proc[r].conv).responseLog =
                        JSONstringify([raised |-> FALSE, success |-> TRUE, error |-> ""])
                  /\ proc[r].incS = 1

\* C11: every admitted conversation ends in one terminal state: a chain, the
\* only one of its conversation, that has run to its end with every sender
\* call settled and every scheduled timer fired, leaves the record SUCCESS or
\* FAILED.
C11_EndsTerminal ==
    \A r \in ReqIds :
        (/\ Ended(r)
         /\ Cardinality(ChainsOf(proc[r].conv)) = 1) =>
            Rec(proc[r].conv).status \in {"success", "failed"}

\* C12: every POST is answered with 200 on every path: a handler that is past
\* its last await has sent a response and its status is 200, also when the
\* schema rejected the body or a LogStore call threw; and a request whose
\* body had no type or failed the schema is answered at once, creates no
\* record and starts no dispatch.
C12_AlwaysAnswered200 ==
    \A r \in ReqIds :
        /\ proc[r].pc \notin {"idle", "check", "lookup", "create"} =>
              /\ proc[r].resp # ""
              /\ proc[r].code = 200
        /\ proc[r].pc \in {"check", "lookup", "create"} => proc[r].resp = ""
        /\ proc[r].resp = "failed" =>
              /\ proc[r].err \in {SchemaError, StoreError}
              /\ ~proc[r].created
        /\ proc[r].event \in {"empty", "invalid"} =>
              /\ proc[r].pc = "responded"
              /\ proc[r].resp \in {"ready", "failed"}
              /\ ~proc[r].created
              /\ proc[r].outcomes = <<>>

\* Two requests answered 200 from the catch block: one whose body the schema
\* rejected, one whose LogStore call threw.
C12_Witness ==
    \E r1, r2 \in ReqIds :
        /\ proc[r1].event = "invalid"
        /\ proc[r1].resp = "failed"
        /\ proc[r1].err = SchemaError
        /\ proc[r1].code = 200
        /\ proc[r2].event = "close"
        /\ proc[r2].resp = "failed"
        /\ proc[r2].err = StoreError
        /\ proc[r2].code = 200
        /\ store = [c \in Conv |-> <<>>]

\* C13: a POST carrying a well-formed close event with a contact, which the
\* handler has answered without finding a record (duplicate), a contact
\* without email (no_email) or a failing collaborator (failed), has created
\* the record of its conversation and started the dispatch chain.
C13_CloseEventAdmitted ==
    \A r \in ReqIds :
        (/\ proc[r].event = "close"
         /\ ConvContacts(proc[r].evconv) # <<>>
         /\ proc[r].resp \notin {"", "duplicate", "no_email", "failed"}) =>
            /\ proc[r].created
            /\ store[proc[r].evconv] # <<>>
            /\ Sends(r) >= 1

\* The request's event is one the handler must not dispatch: a well-formed
\* event of an unrecognized type, a close event without contacts, or a close
\* event whose first contact the lookup resolved to nothing or to no email.
NotDispatchable(p) ==
    \/ p.event = "other"
    \/ p.event = "close" /\ ConvContacts(p.evconv) = <<>>
    \/ p.looked \in {"null", "noemail"}

\* C14: an event that is not dispatched for a classified reason is
\* acknowledged with 200 and has no effect: no step of its handler changes
\* the LogStore, the counters, the audit log or another request, it creates
\* no record, starts no send, and is answered as soon as the reason is known.
C14_SkippedEventHasNoEffect ==
    [][\A r \in ReqIds :
          (proc'[r] # proc[r] /\ NotDispatchable(proc'[r])) =>
              /\ store' = store
              /\ stats' = stats
              /\ audit' = audit
              /\ \A q \in ReqIds \ {r} : proc'[q] = proc[q]
              /\ ~proc'[r].created
              /\ proc'[r].outcomes = <<>>
              /\ proc'[r].pc \in {"check", "responded"}
              /\ proc'[r].pc = "responded" =>
                    /\ proc'[r].code = 200
                    /\ proc'[r].resp \in {"ignored", "no_contacts", "no_email",
                                          "duplicate", "failed", "ready"}
              /\ proc'[r].looked \in {"null", "noemail"} =>
                    /\ proc'[r].pc = "responded"
                    /\ proc'[r].resp = "no_email"
              /\ proc'[r].event = "other" =>
                    /\ proc'[r].pc = "responded"
                    /\ proc'[r].resp = "ignored"]_vars

\* An event of an unrecognized type and a close event whose contact has no
\* email have both been answered 200, with nothing stored and nothing counted.
C14_Witness ==
    \E r1, r2 \in ReqIds :
        /\ proc[r1].event = "other"
        /\ proc[r1].resp = "ignored"
        /\ proc[r1].code = 200
        /\ proc[r2].looked = "noemail"
        /\ proc[r2].resp = "no_email"
        /\ proc[r2].code = 200
        /\ store = [c \in Conv |-> <<>>]
        /\ stats = [success |-> 0, failed |-> 0]

\* C15: the acknowledgement does not wait for any send attempt: whenever a
\* send attempt for an accepted event has been started, the response to the
\* request has already been sent.
C15_AckBeforeSend ==
    \A r \in ReqIds : Sends(r) >= 1 => (proc[r].resp # "" /\ proc[r].code = 200)

\* C16: a failure of the AuditLogger does not touch the dispatch state: the
\* error of a failed logInvitation call is never written to a record, and the
\* chain whose audit call failed neither schedules a retry nor performs a
\* further LogStore write.
C16_AuditFailureIsolated ==
    /\ \A c \in Conv : \A i \in DOMAIN store[c] : store[c][i].errorMessage # AuditError
    /\ \A r \in ReqIds :
          proc[r].err = AuditError => proc[r].pc \in {"done", "rejected"}

\* C17: the record is written before anything is reported: whenever the only
\* chain of a conversation has incremented the success counter, the stored
\* record has status SUCCESS; whenever it has incremented the failure
\* counter, the record has status FAILED; every record handed to the
\* AuditLogger had a terminal status; and a chain with a retry scheduled has
\* the record RETRYING.
C17_RecordAheadOfReports ==
    /\ \A r \in ReqIds :
          (proc[r].created /\ Cardinality(ChainsOf(proc[r].conv)) = 1) =>
              /\ proc[r].incS >= 1 => Rec(proc[r].conv).status = "success"
              /\ proc[r].incF >= 1 => Rec(proc[r].conv).status = "failed"
              /\ proc[r].pc = "timer" => Rec(proc[r].conv).status = "retrying"
    /\ \A a \in audit : a.status \in {"success", "failed"}

\* C18: attempts of one conversation are serialized: at no time does a
\* conversation have more than one send attempt in flight or more than one
\* retry timer pending, and no retry is pending while an attempt for the same
\* conversation is still running.
C18_AttemptsSerialized ==
    \A c \in Conv :
        Cardinality({r \in ChainsOf(c) : proc[r].pc \notin {"done", "rejected"}}) <= 1

\* C19: whenever a retry is scheduled, its delay is the entry of the delay
\* table for the retryCount k the record has just been given (delayTable[k-1]
\* in the source's indexing from 0, RETRY_DELAYS[k] here), k is the number of
\* retries the chain has scheduled, and k lies within the table, so the delay
\* is never undefined.
C19_DelayFromTable ==
    [][\A r \in ReqIds :
          Len(proc'[r].delays) > Len(proc[r].delays) =>
              LET k == Head(store'[proc[r].conv]).retryCount
                  d == proc'[r].delays[Len(proc'[r].delays)]
              IN /\ k \in 1..MAX_RETRIES
                 /\ k \in DOMAIN RETRY_DELAYS
                 /\ k = Len(proc'[r].delays)
                 /\ k = proc[r].retryCount + 1
                 /\ d = RETRY_DELAYS[k]
                 /\ d > 0]_vars

\* A chain has scheduled its third retry, with the whole table used in order.
C19_Witness ==
    \E r \in ReqIds :
        /\ proc[r].pc = "timer"
        /\ proc[r].delays = RETRY_DELAYS
        /\ Rec(proc[r].conv).retryCount = MAX_RETRIES

\* C20: a send attempt that raises and one that returns success == false have
\* the same effect at every retry number: the step that takes the failure
\* changes nothing but the chain's position, which depends on the retry number
\* alone, and the error text; the record update that follows writes RETRYING
\* with retryCount + 1 and that text, and schedules the retry, or writes
\* FAILED with that text and then increments the failure counter once,
\* whichever the text is.
C20_RaiseLikeExplicitFailure ==
    [][\A r \in ReqIds :
          LET p == proc[r]
              q == proc'[r]
          IN
          /\ (p.pc = "send" /\ q.pc # "send" /\ ~q.outcomes[Len(q.outcomes)]) =>
                /\ q.err \in {res.error : res \in {x \in SendResults : ~x.success}}
                /\ [q EXCEPT !.err = ""] =
                      [p EXCEPT !.outcomes = Append(@, FALSE),
                                !.pc = IF p.retryCount < MAX_RETRIES THEN "updR" ELSE "updF"]
                /\ store' = store
                /\ stats' = stats
          /\ (p.pc = "updR" /\ q.pc # "updR" /\ q.pc # "rejected") =>
                /\ q.pc = "timer"
                /\ Head(store'[p.conv]).status = "retrying"
                /\ Head(store'[p.conv]).retryCount = p.retryCount + 1
                /\ Head(store'[p.conv]).errorMessage = p.err
                /\ q.delays = Append(p.delays, RETRY_DELAYS[p.retryCount + 1])
                /\ stats' = stats
          /\ (p.pc = "updF" /\ q.pc # "updF" /\ q.pc # "rejected") =>
                /\ q.pc = "incF"
                /\ p.retryCount = MAX_RETRIES
                /\ Head(store'[p.conv]).status = "failed"
                /\ Head(store'[p.conv]).errorMessage = p.err
                /\ q.delays = p.delays
                /\ stats' = stats
          /\ (p.pc = "incF" /\ q.pc # "incF" /\ q.pc # "rejected") =>
                /\ stats' = [stats EXCEPT !.failed = @ + 1]
                /\ store' = store]_vars

\* Two conversations have ended FAILED after the same three retries, one on a
\* sender that raised at the last attempt, one on a sender that returned a
\* failure.
C20_Witness ==
    \E r1, r2 \in ReqIds :
        /\ Ended(r1) /\ Ended(r2)
        /\ proc[r1].conv # proc[r2].conv
        /\ Rec(proc[r1].conv).errorMessage = "socket hang up"
        /\ Rec(proc[r2].conv).errorMessage = "smtp rejected"
        /\ Rec(proc[r1].conv).status = "failed"
        /\ Rec(proc[r2].conv).status = "failed"
        /\ Rec(proc[r1].conv).retryCount = MAX_RETRIES
        /\ Rec(proc[r2].conv).retryCount = MAX_RETRIES
        /\ proc[r1].delays = RETRY_DELAYS
        /\ proc[r2].delays = RETRY_DELAYS
        /\ stats.failed = 2

\* The fields of a record captured at creation.
Identity(rec) ==
    <<rec.conversationId, rec.customerEmail, rec.customerName, rec.agentName>>

\* C21: a record's conversationId, customerEmail, customerName and agentName
\* never change once it is stored: every step keeps every stored record in
\* place with these four fields as they were; and a dispatch chain carries
\* the same conversationId, email, name and agent name from its creation
\* through every send attempt, equal to those of a record stored for its
\* conversation.
C21_IdentityImmutable ==
    [][/\ \A c \in Conv : \A i \in DOMAIN store[c] :
             /\ i \in DOMAIN store'[c]
             /\ Identity(store'[c][i]) = Identity(store[c][i])
             /\ store'[c][i].conversationId = c
       /\ \A r \in ReqIds :
             /\ proc[r].created =>
                   /\ proc'[r].created
                   /\ proc'[r].conv = proc[r].conv
                   /\ proc'[r].email = proc[r].email
                   /\ proc'[r].name = proc[r].name
                   /\ proc'[r].agentName = proc[r].agentName
             /\ proc'[r].created =>
                   \E i \in DOMAIN store'[proc'[r].conv] :
                       Identity(store'[proc'[r].conv][i]) =
                           <<proc'[r].conv, proc'[r].email, proc'[r].name,
                             proc'[r].agentName>>]_vars

\* A chain has ended after a retry, and the record still has the recipient
\* and agent the chain was started with.
C21_Witness ==
    \E r \in ReqIds :
        /\ proc[r].created
        /\ Ended(r)
        /\ proc[r].delays # <<>>
        /\ Rec(proc[r].conv).status \in {"success", "failed"}
        /\ Identity(Rec(proc[r].conv)) =
              <<proc[r].conv, proc[r].email, proc[r].name, proc[r].agentName>>

\* C22: a LogStore failure is contained in the dispatch pipeline: no chain is
\* ever ended by a LogStore exception leaving an invocation started from a
\* retry timer, which has no handler, and no chain ended by a LogStore
\* exception leaves the record of its conversation in a non-terminal state.
C22_StoreFailureContained ==
    \A r \in ReqIds :
        (proc[r].pc = "rejected" /\ proc[r].err = StoreError) =>
            /\ proc[r].retryCount = 0
            /\ Cardinality(ChainsOf(proc[r].conv)) = 1 =>
                  Rec(proc[r].conv).status \in {"success", "failed"}

\* The next step of chain r is possible, whatever the other chains are doing.
CanStep(r) ==
    /\ proc[r].pc = "send" => ENABLED SendReturn(r)
    /\ proc[r].pc = "updS" => ENABLED UpdateSuccess(r)
    /\ proc[r].pc = "incS" => ENABLED IncSuccess(r)
    /\ proc[r].pc = "getS" => ENABLED GetSuccess(r)
    /\ proc[r].pc = "audS" => ENABLED AuditSuccess(r)
    /\ proc[r].pc = "updR" => ENABLED UpdateRetry(r)
    /\ proc[r].pc = "timer" => ENABLED TimerFire(r)
    /\ proc[r].pc = "updF" => ENABLED UpdateFailed(r)
    /\ proc[r].pc = "incF" => ENABLED IncFailed(r)
    /\ proc[r].pc = "getF" => ENABLED GetFailed(r)
    /\ proc[r].pc = "audF" => ENABLED AuditFailed(r)

\* C23: chains of distinct conversations are independent: a chain is never
\* kept from its next step by another chain, whether that one is waiting on
\* the sender, waiting on a timer or over; and every step of a request or
\* chain leaves the records of all other conversations and the position and
\* data of all other requests and chains unchanged.
C23_ChainsIndependent ==
    [][/\ \A r \in ReqIds : CanStep(r)
       /\ \A r \in ReqIds :
             proc'[r] # proc[r] =>
                /\ \A q \in ReqIds \ {r} : proc'[q] = proc[q]
                /\ \A c \in Conv \ {proc'[r].conv} : store'[c] = store[c]]_vars

\* One conversation's first send has not returned; meanwhile another
\* conversation has gone through a failed attempt and a retry to SUCCESS.
C23_Witness ==
    \E r1, r2 \in ReqIds :
        /\ proc[r1].conv # proc[r2].conv
        /\ proc[r1].pc = "send"
        /\ proc[r1].outcomes = <<>>
        /\ proc[r2].pc = "done"
        /\ proc[r2].outcomes = <<FALSE, TRUE>>
        /\ Rec(proc[r2].conv).status = "success"
        /\ Rec(proc[r1].conv).status = "processing"

\* C24: a record with status SUCCESS has its responseLog set and no
\* errorMessage, also when earlier attempts of the conversation failed.
C24_SuccessClearsError ==
    \A c \in Conv : \A i \in DOMAIN store[c] :
        store[c][i].status = "success" =>
            /\ store[c][i].responseLog # <<>>
            /\ store[c][i].errorMessage = ""

\* C25: a retry that was pending when the process restarted is dropped: the
\* chain, the only one of its conversation, makes no further send attempt,
\* and the record stays RETRYING, with the retryCount of the scheduled retry,
\* in every later state, whatever arrives after the restart.
C25_RestartDropsRetry ==
    \A r \in ReqIds :
        (/\ proc[r].atRestart = "timer"
         /\ Cardinality(ChainsOf(proc[r].conv)) = 1) =>
            /\ proc[r].pc = "lost"
            /\ Sends(r) = Len(proc[r].delays)
            /\ Len(store[proc[r].conv]) = 1
            /\ Rec(proc[r].conv).status = "retrying"
            /\ Rec(proc[r].conv).retryCount = proc[r].retryCount + 1

\* The restart dropped a pending retry, and the close event of the same
\* conversation, delivered again to the new process, was answered as a
\* duplicate.
C25_Witness ==
    \E r1, r2 \in ReqIds :
        /\ proc[r1].atRestart = "timer"
        /\ proc[r1].pc = "lost"
        /\ proc[r2].atRestart = ""
        /\ proc[r2].evconv = proc[r1].conv
        /\ proc[r2].replay
        /\ proc[r2].resp = "duplicate"
        /\ Rec(proc[r1].conv).status = "retrying"

\* C26: every send attempt is made for a conversation whose record exists:
\* whenever a request has a send attempt in flight or settled, the LogStore
\* holds a record for its conversationId.
C26_RecordBeforeSend ==
    \A r \in ReqIds : Sends(r) >= 1 => store[proc[r].conv] # <<>>

\* Send attempts of chain r that have failed so far.
FailedSends(r) ==
    Cardinality({i \in DOMAIN proc[r].outcomes : ~proc[r].outcomes[i]})

\* C27: for the only chain of a conversation, outside the one await between
\* a failed send and the record update that counts it, the stored retryCount
\* is min(failed send attempts so far, MAX_RETRIES), so it is 0 exactly while
\* no attempt has failed and it never decreases; and the attempt number the
\* dispatcher carries, in a running attempt or in a scheduled retry, is the
\* stored retryCount.
C27_RetryCountIsFailedSends ==
    \A r \in ReqIds :
        (/\ proc[r].created
         /\ Cardinality(ChainsOf(proc[r].conv)) = 1
         /\ proc[r].pc # "updR") =>
            /\ Rec(proc[r].conv).retryCount =
                  IF FailedSends(r) < MAX_RETRIES THEN FailedSends(r) ELSE MAX_RETRIES
            /\ proc[r].pc = "send" => proc[r].retryCount = Rec(proc[r].conv).retryCount
            /\ proc[r].pc = "timer" =>
                  proc[r].retryCount + 1 = Rec(proc[r].conv).retryCount
====
